---- MODULE Spec2Model ----
(***************************************************************************)
(* CBC padding-oracle attack of demos/aes-ecb-oracle.ipynb (second         *)
(* notebook of the file, "CBC Padding Oracle Attack").                     *)
(*                                                                         *)
(* Bytes are scaled from 8 bits to 3 bits (0..ByteMod-1) and blocks from   *)
(* 16 bytes to BlockSize bytes; AES is a keyed permutation of blocks.      *)
(* Sequences are 1-based: the code's index i is position i + 1.            *)
(***************************************************************************)
EXTENDS Integers, Sequences, FiniteSets, TLC

\* range(0, 256) of a bytearray element, scaled to three bits.
ByteMod == 8
\* AES.block_size, scaled.
BlockSize == 3
\* Rounds of the keyed permutation standing for AES.
Rounds == 6

\* Largest key index drawn for secret_key.
MaxKey == 1
\* Longest plaintext drawn for encrypt_secret_message.
MaxLen == 3

\* Largest byte value filling an alternative placeholder IV or IV mask.
MaxFill == 1
\* Most junk bytes appended to a ciphertext.
MaxJunk == 1
\* Longest argument drawn for a direct call of pad or unpad.
MaxArg == 3
\* Largest number of queries a faulty oracle answers truly before its fault.
MaxOutage == 8

Byte == 0 .. (ByteMod - 1)
Keys == 0 .. MaxKey

\* Python's None.
None == "None"

-----------------------------------------------------------------------------
(* Byte and block primitives                                               *)

\* x ^ y on ints.
BitXor[x \in Nat, y \in Nat] ==
    IF x = 0 THEN y
    ELSE IF y = 0 THEN x
    ELSE ((x + y) % 2) + 2 * BitXor[x \div 2, y \div 2]

Min(a, b) == IF a < b THEN a ELSE b

\* [v] * n
Repeat(v, n) == [j \in 1 .. n |-> v]

\* bytearray(n)
ZeroBytes(n) == Repeat(0, n)

\* bytes(x ^ y for x, y in zip(a, b)): zip stops at the shorter argument.
xor_bytes(a, b) == [j \in 1 .. Min(Len(a), Len(b)) |-> BitXor[a[j], b[j]]]

\* s[-n:] for 1 <= n; Python clamps a start before the beginning to 0.
LastN(s, n) == SubSeq(s, IF n >= Len(s) THEN 1 ELSE Len(s) - n + 1, Len(s))

\* s[:-n] for 1 <= n.
DropLastN(s, n) == SubSeq(s, 1, Len(s) - n)

\* All byte strings of length n, and of length at most n.
BytesOfLen(n) == [1 .. n -> Byte]
BytesUpTo(n) == UNION {BytesOfLen(m) : m \in 0 .. n}
Blocks == BytesOfLen(BlockSize)

-----------------------------------------------------------------------------
(* PKCS#7 padding                                                          *)

\* Python values: None, an int, a str.
PyNone == [type |-> "NoneType"]
PyInt(n) == [type |-> "int", int |-> n]
PyStr(chars) == [type |-> "str", chars |-> chars]

\* The outcome of a call: a returned value, or a raised exception (Raise for
\* a function returning an object, RaiseBytes for one returning bytes,
\* RaiseBool for one returning a bool).
Return(v) == [raised |-> None, value |-> v]
Raise(e) == [raised |-> e, value |-> PyNone]
RaiseBytes(e) == [raised |-> e, value |-> <<>>]
RaiseBool(e) == [raised |-> e, value |-> FALSE]

\* pad that adds nothing to a whole number of blocks.
pad_none_when_aligned(plaintext, block_size) ==
    LET padding == (block_size - (Len(plaintext) % block_size)) % block_size
    IN  Return(plaintext \o Repeat(padding, padding))

\* pad(plaintext, block_size): bytes([padding] * padding) is a ValueError
\* when padding is no byte value.
pad(plaintext, block_size) ==
    LET padding == block_size - (Len(plaintext) % block_size)
    IN  IF padding >= ByteMod
        THEN RaiseBytes("ValueError: bytes must be in range")
        ELSE Return(plaintext \o Repeat(padding, padding))

\* unpad that does not compare the first of the padding bytes.
unpad_first_unchecked(padded) ==
    IF Len(padded) = 0 THEN RaiseBytes("IndexError")
    ELSE LET padding == padded[Len(padded)]
         IN  IF padding = 0 \/ padding > Len(padded)
             THEN RaiseBytes("ValueError: Invalid padding")
             ELSE IF \E j \in 2 .. padding : LastN(padded, padding)[j] # padding
                  THEN RaiseBytes("ValueError: Invalid padding")
                  ELSE Return(DropLastN(padded, padding))

\* The body of unpad on the value of its argument: padded[-1] of an empty
\* string is an IndexError.
Unpadded[padded \in Seq(Nat)] ==
    IF Len(padded) = 0 THEN RaiseBytes("IndexError")
    ELSE LET padding == padded[Len(padded)]
         IN  IF padding = 0 \/ padding > Len(padded)
             THEN RaiseBytes("ValueError: Invalid padding")
             ELSE IF \E j \in 1 .. padding : LastN(padded, padding)[j] # padding
                  THEN RaiseBytes("ValueError: Invalid padding")
                  ELSE Return(DropLastN(padded, padding))

\* unpad(padded)
unpad(padded) == Unpadded[padded]

\* bytes.decode(): UTF-8 scaled to three-bit bytes. A byte below ByteMod/2
\* is a character of its own; a lead byte (top two bits set) followed by a
\* continuation byte (top bit set, next clear) is one character; any other
\* sequence is a UnicodeDecodeError. The result is a str (code points).
IsAscii(b) == b < ByteMod \div 2
IsContinuation(b) == b >= ByteMod \div 2 /\ b < 3 * (ByteMod \div 4)
IsLead(b) == b >= 3 * (ByteMod \div 4)

RECURSIVE CodePoints(_)
CodePoints(bs) ==
    IF Len(bs) = 0 THEN [ok |-> TRUE, chars |-> <<>>]
    ELSE IF IsAscii(bs[1]) THEN
        LET rest == CodePoints(Tail(bs))
        IN  [ok |-> rest.ok, chars |-> <<bs[1]>> \o rest.chars]
    ELSE IF IsLead(bs[1]) /\ Len(bs) >= 2 /\ IsContinuation(bs[2]) THEN
        LET rest == CodePoints(Tail(Tail(bs)))
            cp == ByteMod + (bs[1] % 2) * (ByteMod \div 4) + (bs[2] % (ByteMod \div 4))
        IN  [ok |-> rest.ok, chars |-> <<cp>> \o rest.chars]
    ELSE [ok |-> FALSE, chars |-> <<>>]

decode(bs) ==
    LET cps == CodePoints(bs)
    IN  IF cps.ok THEN Return(PyStr(cps.chars)) ELSE Raise("UnicodeDecodeError")

-----------------------------------------------------------------------------
(* The block cipher and CBC mode                                           *)

\* Round function of the keyed permutation.
RoundF(t, k, j) ==
    LET s == k + j + t[1] + (IF Len(t) >= 2 THEN 2 * t[2] ELSE 0)
    IN  (s * s + k) % ByteMod

EncryptRounds[b \in Seq(Byte), k \in Nat, j \in Nat] ==
    IF j > Rounds THEN b
    ELSE EncryptRounds[Tail(b) \o <<BitXor[b[1], RoundF(Tail(b), k, j)]>>, k, j + 1]

DecryptRounds[x \in Seq(Byte), k \in Nat, j \in Nat] ==
    IF j < 1 THEN x
    ELSE LET front == SubSeq(x, 1, Len(x) - 1)
         IN  DecryptRounds[<<BitXor[x[Len(x)], RoundF(front, k, j)]>> \o front, k, j - 1]

\* One block through the cipher: a permutation of Blocks for every key.
BlockEncrypt(key, b) == EncryptRounds[b, key, 1]
BlockDecrypt(key, x) == DecryptRounds[x, key, Rounds]

\* blocks that drops a short last block.
blocks_whole_only(ciphertext) ==
    [n \in 1 .. (Len(ciphertext) \div BlockSize) |->
        SubSeq(ciphertext, (n - 1) * BlockSize + 1, n * BlockSize)]

\* ciphertext[i : i + AES.block_size] for i in range(0, len, block_size):
\* the last block is short when the length is no multiple of the block size.
blocks(ciphertext) ==
    [n \in 1 .. ((Len(ciphertext) + BlockSize - 1) \div BlockSize) |->
        SubSeq(ciphertext, (n - 1) * BlockSize + 1,
               Min(n * BlockSize, Len(ciphertext)))]

RECURSIVE CbcEncryptBlocks(_, _, _)
CbcEncryptBlocks(key, prev, bs) ==
    IF Len(bs) = 0 THEN <<>>
    ELSE LET c == BlockEncrypt(key, xor_bytes(bs[1], prev))
         IN  c \o CbcEncryptBlocks(key, c, Tail(bs))

RECURSIVE CbcDecryptBlocks(_, _, _)
CbcDecryptBlocks(key, prev, cs) ==
    IF Len(cs) = 0 THEN <<>>
    ELSE xor_bytes(BlockDecrypt(key, cs[1]), prev)
            \o CbcDecryptBlocks(key, cs[1], Tail(cs))

\* aes_cbc_encrypt(plaintext, key), with the iv secrets.token_bytes drew.
aes_cbc_encrypt(plaintext, key, iv) ==
    iv \o CbcEncryptBlocks(key, iv, blocks(plaintext))

\* aes_cbc_decrypt(ciphertext, key): the library raises a ValueError for an
\* IV that is not one block and for data that is not whole blocks.
aes_cbc_decrypt(ciphertext, key) ==
    LET iv == SubSeq(ciphertext, 1, Min(BlockSize, Len(ciphertext)))
        data == SubSeq(ciphertext, BlockSize + 1, Len(ciphertext))
    IN  IF Len(iv) # BlockSize THEN RaiseBytes("ValueError: Incorrect IV length")
        ELSE IF Len(data) % BlockSize # 0
        THEN RaiseBytes("ValueError: Data must be padded to block boundary")
        ELSE Return(CbcDecryptBlocks(key, iv, blocks(data)))

\* padding_oracle(ciphertext): only unpad's ValueError is caught; what
\* aes_cbc_decrypt raises, and unpad's IndexError, propagate.
padding_oracle(ciphertext, key) ==
    LET decrypted == aes_cbc_decrypt(ciphertext, key)
    IN  IF decrypted.raised # None THEN RaiseBool(decrypted.raised)
        ELSE LET unpadded == unpad(decrypted.value)
             IN  IF unpadded.raised = None THEN Return(TRUE)
                 ELSE IF unpadded.raised = "ValueError: Invalid padding"
                 THEN Return(FALSE)
                 ELSE RaiseBool(unpadded.raised)

\* The message of encrypt_secret_message, scaled; its prefixes are the
\* plaintexts drawn.
Message == <<1, 0, 3, 6, 4>>
Plaintexts == {SubSeq(Message, 1, n) : n \in 0 .. Min(MaxLen, Len(Message))}

\* encrypt_secret_message(), for a drawn plaintext, key and iv.
encrypt_secret_message(message, key, iv) ==
    aes_cbc_encrypt(pad(message, BlockSize).value, key, iv)

-----------------------------------------------------------------------------
(* State                                                                   *)

VARIABLES
    secret_key,             \* the server's key
    secret_message,         \* the plaintext that was encrypted
    intercepted_ciphertext, \* IV || C1 || ... || Cn
    oracle,                 \* which oracle answers the queries
    outage,                 \* queries a faulty oracle answers truly before its fault
    entry,                  \* the function that was called
    call,                   \* 1 in the first call, 2 in a repeated call
    placeholder,            \* the value given to zero_iv
    first,                  \* the outcome of the first call, once repeated
    pc,                     \* position in the code
    blk,                    \* index of (c, prev_c) in the zip of the loop
    c, prev_c,              \* loop variables of padding_oracle_attack
    plaintext, zero_iv, dc, r, padding_size, i,
    find_r, find_i,         \* find_padding_size's copy of r, and its i
    result,                 \* what the call returned or raised
    log,                    \* the oracle queries made, in order
    Ds,                     \* dc of every block completed
    arg                     \* the arguments of a direct call of pad or unpad

globals == <<secret_key, secret_message, intercepted_ciphertext, oracle,
             outage, entry, call, placeholder, first, arg>>
locals == <<blk, c, prev_c, plaintext, zero_iv, dc, r, padding_size, i,
            find_r, find_i>>
vars == <<globals, locals, pc, result, log, Ds>>

\* original_iv, *original_ciphertext = blocks(intercepted_ciphertext)
original_iv == blocks(intercepted_ciphertext)[1]
original_ciphertext == Tail(blocks(intercepted_ciphertext))
\* prev_ciphertext = [original_iv] + original_ciphertext[:-1]
prev_ciphertext ==
    <<original_iv>> \o SubSeq(original_ciphertext, 1, Len(original_ciphertext) - 1)

\* A padding_oracle that turns every failure of its own into a verdict.
Ask_failure_as_false(candidate) ==
    IF oracle \in {"padding_oracle", "unavailable"}
    THEN LET answer == padding_oracle(candidate, secret_key)
         IN  IF Len(log) >= outage /\ oracle = "unavailable" THEN Return(FALSE)
             ELSE IF answer.raised # None THEN Return(FALSE)
             ELSE answer
    ELSE Return(oracle = "always_true")

\* The answer of the oracle in use to one candidate: padding_oracle, or one
\* of the faulty oracles put in its place (one that rejects everything, one
\* that accepts everything, one whose call fails from the outage on, one that
\* rejects everything from the outage on).
Ask(candidate) ==
    IF oracle = "padding_oracle" THEN padding_oracle(candidate, secret_key)
    ELSE IF oracle = "always_true" THEN Return(TRUE)
    ELSE IF oracle = "unavailable"
    THEN IF Len(log) >= outage THEN RaiseBool("ConnectionError")
         ELSE padding_oracle(candidate, secret_key)
    ELSE IF oracle = "turns_false"
    THEN IF Len(log) >= outage THEN Return(FALSE)
         ELSE padding_oracle(candidate, secret_key)
    ELSE Return(FALSE)

Verdict(answer) ==
    IF answer.raised # None THEN answer.raised
    ELSE IF answer.value THEN "True" ELSE "False"

Logged(candidate, answer) ==
    Append(log, [site |-> pc, blk |-> blk, candidate |-> candidate,
                 verdict |-> Verdict(answer)])

\* The frame of a call before its first assignment.
FreshLocals ==
    /\ blk = 0 /\ c = <<>> /\ prev_c = <<>> /\ plaintext = <<>>
    /\ zero_iv = <<>> /\ dc = <<>> /\ r = <<>> /\ padding_size = PyNone
    /\ i = 0 /\ find_r = <<>> /\ find_i = 0

NoOutcome == result = Return(PyNone) /\ log = <<>> /\ Ds = <<>>

NoFirst ==
    [result |-> Return(PyNone), log |-> <<>>, Ds |-> <<>>, plaintext |-> <<>>,
     intercepted_ciphertext |-> <<>>]

NoArg == [x |-> <<>>, block_size |-> 0]

\* A first call of padding_oracle_attack, about to start, with the code's
\* all-zero placeholder IV.
AttackCalled ==
    /\ entry = "padding_oracle_attack"
    /\ call = 1
    /\ placeholder = ZeroBytes(BlockSize)
    /\ first = NoFirst
    /\ arg = NoArg
    /\ pc = "split"
    /\ FreshLocals
    /\ NoOutcome

\* The intercepted message: a drawn key, IV and plaintext.
Intercepted(IVs) ==
    /\ outage = 0
    /\ secret_key \in Keys
    /\ secret_message \in Plaintexts
    /\ \E iv \in IVs :
          intercepted_ciphertext = encrypt_secret_message(secret_message, secret_key, iv)
    /\ AttackCalled

Init == Intercepted(Blocks) /\ oracle = "padding_oracle"

-----------------------------------------------------------------------------
(* padding_oracle_attack and find_padding_size, one oracle query a step    *)

\* An exception leaves the call.
Fails(e) == pc' = "done" /\ result' = Raise(e)

\* dc and r made once, before the loop, and carried from block to block.
EnterBlock_keeps_buffers(n) ==
    IF n <= Min(Len(original_ciphertext), Len(prev_ciphertext))
    THEN /\ blk' = n
         /\ c' = original_ciphertext[n]
         /\ prev_c' = prev_ciphertext[n]
         /\ dc' = IF n = 1 THEN ZeroBytes(BlockSize) ELSE dc
         /\ r' = IF n = 1 THEN ZeroBytes(BlockSize) ELSE r
         /\ pc' = "bootstrap"
    ELSE /\ pc' = "return"
         /\ UNCHANGED <<blk, c, prev_c, dc, r>>

\* for c, prev_c in zip(original_ciphertext, prev_ciphertext): the n-th turn
\* of the loop starts with fresh dc and r; after the last one comes the return.
EnterBlock(n) ==
    IF n <= Min(Len(original_ciphertext), Len(prev_ciphertext))
    THEN /\ blk' = n
         /\ c' = original_ciphertext[n]
         /\ prev_c' = prev_ciphertext[n]
         /\ dc' = ZeroBytes(BlockSize)
         /\ r' = ZeroBytes(BlockSize)
         /\ pc' = "bootstrap"
    ELSE /\ pc' = "return"
         /\ UNCHANGED <<blk, c, prev_c, dc, r>>

\* The accumulated plaintext kept from an earlier call.
EmptyPlaintext_kept == plaintext

\* plaintext = b""
EmptyPlaintext == <<>>

\* The intercepted IV used in the queries.
ZeroIv_original_iv == original_iv

\* zero_iv = bytearray(AES.block_size); the value is the caller's choice in
\* the calls that vary it.
ZeroIv == placeholder

\* Lines 370-381: split the message, set up the loop.
Split ==
    /\ pc = "split"
    /\ UNCHANGED <<globals, padding_size, i, find_r, find_i, log, Ds>>
    /\ IF Len(blocks(intercepted_ciphertext)) = 0
       THEN /\ Fails("ValueError: not enough values to unpack")
            /\ UNCHANGED <<blk, c, prev_c, plaintext, zero_iv, dc, r>>
       ELSE /\ plaintext' = EmptyPlaintext
            /\ zero_iv' = ZeroIv
            /\ EnterBlock(1)
            /\ UNCHANGED result

\* An increment that never raises.
Overflows_never(b) == FALSE

\* r[k] += 1 on a bytearray: a ValueError past the last byte value.
Overflows(b) == b + 1 >= ByteMod

\* A bootstrap that builds its candidate in place: zero_iv += r + c.
Bootstrap_in_place ==
    /\ pc = "bootstrap"
    /\ UNCHANGED <<globals, blk, c, prev_c, plaintext, dc,
                   padding_size, i, find_r, find_i, Ds>>
    /\ zero_iv' = zero_iv \o r \o c
    /\ LET answer == Ask(zero_iv \o r \o c)
       IN  /\ log' = Logged(zero_iv \o r \o c, answer)
           /\ IF answer.raised # None
              THEN Fails(answer.raised) /\ UNCHANGED r
              ELSE IF answer.value
              THEN pc' = "find_precondition" /\ UNCHANGED <<r, result>>
              ELSE IF Overflows(r[Len(r)])
              THEN Fails("ValueError: byte must be in range") /\ UNCHANGED r
              ELSE /\ r' = [r EXCEPT ![Len(r)] = @ + 1]
                   /\ UNCHANGED <<pc, result>>

\* A bootstrap whose increment wraps: r[-1] = (r[-1] + 1) % 256.
Bootstrap_wraps ==
    /\ pc = "bootstrap"
    /\ UNCHANGED <<globals, blk, c, prev_c, plaintext, zero_iv, dc,
                   padding_size, i, find_r, find_i, Ds>>
    /\ LET answer == Ask(zero_iv \o r \o c)
       IN  /\ log' = Logged(zero_iv \o r \o c, answer)
           /\ IF answer.raised # None
              THEN Fails(answer.raised) /\ UNCHANGED r
              ELSE IF answer.value
              THEN pc' = "find_precondition" /\ UNCHANGED <<r, result>>
              ELSE /\ r' = [r EXCEPT ![Len(r)] = (@ + 1) % ByteMod]
                   /\ UNCHANGED <<pc, result>>

\* A bootstrap that asks again without changing r.
Bootstrap_no_increment ==
    /\ pc = "bootstrap"
    /\ UNCHANGED <<globals, blk, c, prev_c, plaintext, zero_iv, dc, r,
                   padding_size, i, find_r, find_i, Ds>>
    /\ LET answer == Ask(zero_iv \o r \o c)
       IN  /\ log' = Logged(zero_iv \o r \o c, answer)
           /\ IF answer.raised # None
              THEN Fails(answer.raised)
              ELSE IF answer.value
              THEN pc' = "find_precondition" /\ UNCHANGED result
              ELSE UNCHANGED <<pc, result>>

\* Lines 383-384: one turn of the bootstrap loop.
Bootstrap ==
    /\ pc = "bootstrap"
    /\ UNCHANGED <<globals, blk, c, prev_c, plaintext, zero_iv, dc,
                   padding_size, i, find_r, find_i, Ds>>
    /\ LET answer == Ask(zero_iv \o r \o c)
       IN  /\ log' = Logged(zero_iv \o r \o c, answer)
           /\ IF answer.raised # None
              THEN Fails(answer.raised) /\ UNCHANGED r
              ELSE IF answer.value
              THEN pc' = "find_precondition" /\ UNCHANGED <<r, result>>
              ELSE IF Overflows(r[Len(r)])
              THEN Fails("ValueError: byte must be in range") /\ UNCHANGED r
              ELSE /\ r' = [r EXCEPT ![Len(r)] = @ + 1]
                   /\ UNCHANGED <<pc, result>>

\* find_padding_size that goes on whatever the oracle says of R || C.
FindPrecondition_unchecked ==
    /\ pc = "find_precondition"
    /\ UNCHANGED <<globals, blk, c, prev_c, plaintext, zero_iv, dc, r,
                   padding_size, i, Ds>>
    /\ log' = Logged(zero_iv \o r \o c, Ask(zero_iv \o r \o c))
    /\ find_r' = r
    /\ find_i' = 0
    /\ pc' = "find_probe"
    /\ UNCHANGED result

\* Lines 352-357: the sanity checks of find_padding_size(iv, r, c).
FindPrecondition ==
    /\ pc = "find_precondition"
    /\ UNCHANGED <<globals, blk, c, prev_c, plaintext, zero_iv, dc, r,
                   padding_size, i, Ds>>
    /\ IF Len(r) # BlockSize
       THEN Fails("ValueError: R must be a single block")
            /\ UNCHANGED <<find_r, find_i, log>>
       ELSE IF Len(c) # BlockSize
       THEN Fails("ValueError: C must be a single block")
            /\ UNCHANGED <<find_r, find_i, log>>
       ELSE LET answer == Ask(zero_iv \o r \o c)
            IN  /\ log' = Logged(zero_iv \o r \o c, answer)
                /\ IF answer.raised # None
                   THEN Fails(answer.raised) /\ UNCHANGED <<find_r, find_i>>
                   ELSE IF ~answer.value
                   THEN Fails("ValueError: R || C must have valid padding")
                        /\ UNCHANGED <<find_r, find_i>>
                   ELSE /\ find_r' = r          \* r = bytearray(r)
                        /\ find_i' = 0
                        /\ pc' = "find_probe"
                        /\ UNCHANGED result

\* Only the last byte of dc written, whatever the padding length.
SetTail_last_byte_only(dc_, r_, p) ==
    SubSeq(dc_, 1, Len(dc_) - 1) \o <<BitXor[r_[Len(r_)], p]>>

\* dc[-padding_size:] = xor_bytes(r[-padding_size:], bytes([padding_size] * padding_size))
SetTail(dc_, r_, p) ==
    SubSeq(dc_, 1, Len(dc_) - Min(p, Len(dc_)))
        \o xor_bytes(LastN(r_, p), Repeat(p, p))

\* r left as it is between two indices: the tail keeps the padding value of
\* the index before.
Retarget_stale(dc_, r_, idx) == r_

\* padding = AES.block_size - i
\* r[i + 1 :] = xor_bytes(dc[i + 1 :], bytes([padding] * len(r[i + 1 :])))
Retarget(dc_, r_, idx) ==
    SubSeq(r_, 1, idx + 1)
        \o xor_bytes(SubSeq(dc_, idx + 2, Len(dc_)),
                     Repeat(BlockSize - idx, Len(r_) - (idx + 1)))

\* A loop over the indices that stops before index 0: range(..., 0, -1).
EnterIndex_stops_at_one(dc_, idx) ==
    IF idx >= 1
    THEN /\ i' = idx
         /\ r' = Retarget(dc_, r, idx)
         /\ pc' = "search"
    ELSE /\ pc' = "append"
         /\ UNCHANGED <<i, r>>

\* for i in range(AES.block_size - padding_size - 1, -1, -1): the turn for
\* index idx, with dc as it stands; below index 0 the loop is over.
EnterIndex(dc_, idx) ==
    IF idx >= 0
    THEN /\ i' = idx
         /\ r' = Retarget(dc_, r, idx)
         /\ pc' = "search"
    ELSE /\ pc' = "append"
         /\ UNCHANGED <<i, r>>

\* find_padding_size returns p (None when its loop ends without a return):
\* to the caller of a direct call, or to line 386 of padding_oracle_attack.
FindReturns(p) ==
    IF entry = "find_padding_size"
    THEN /\ result' = Return(p)
         /\ pc' = "done"
         /\ UNCHANGED <<padding_size, dc, r, i>>
    ELSE /\ padding_size' = p
         /\ IF p = PyNone
            THEN Fails("TypeError: bad operand type for unary -")
                 /\ UNCHANGED <<dc, r, i>>
            ELSE /\ dc' = SetTail(dc, r, p.int)
                 /\ EnterIndex(SetTail(dc, r, p.int), BlockSize - p.int - 1)
                 /\ UNCHANGED result

\* r[i] ^= 1
FlipBit(r_, idx) == [r_ EXCEPT ![idx + 1] = BitXor[@, 1]]

\* A direct call's probe loop without the copy of line 360: the flips are
\* made in the caller's r.
FindProbe_without_copy ==
    /\ pc = "find_probe" /\ entry = "find_padding_size"
    /\ UNCHANGED <<globals, blk, c, prev_c, plaintext, zero_iv, Ds>>
    /\ LET probe == FlipBit(find_r, find_i)
           answer == Ask(probe \o c)
       IN  /\ find_r' = probe
           /\ r' = probe
           /\ log' = Logged(probe \o c, answer)
           /\ UNCHANGED <<padding_size, dc, i>>
           /\ IF answer.raised # None
              THEN Fails(answer.raised) /\ UNCHANGED find_i
              ELSE IF ~answer.value
              THEN /\ result' = Return(PyInt(Len(find_r) - find_i))
                   /\ pc' = "done"
                   /\ UNCHANGED find_i
              ELSE IF find_i + 1 < Len(find_r)
              THEN find_i' = find_i + 1 /\ UNCHANGED <<pc, result>>
              ELSE result' = Return(PyNone) /\ pc' = "done" /\ UNCHANGED find_i

\* Lines 361-366: one turn of the probe loop of find_padding_size.
FindProbe ==
    /\ pc = "find_probe"
    /\ UNCHANGED <<globals, blk, c, prev_c, plaintext, zero_iv, Ds>>
    /\ LET probe == FlipBit(find_r, find_i)
           answer == Ask(probe \o c)
       IN  /\ find_r' = probe
           /\ log' = Logged(probe \o c, answer)
           /\ IF answer.raised # None
              THEN Fails(answer.raised)
                   /\ UNCHANGED <<find_i, padding_size, dc, r, i>>
              ELSE IF ~answer.value
              THEN FindReturns(PyInt(Len(find_r) - find_i)) /\ UNCHANGED find_i
              ELSE IF find_i + 1 < Len(find_r)
              THEN /\ find_i' = find_i + 1
                   /\ UNCHANGED <<pc, result, padding_size, dc, r, i>>
              ELSE FindReturns(PyNone) /\ UNCHANGED find_i

\* Lines 397-400: one turn of the search for r[i].
Search ==
    /\ pc = "search"
    /\ UNCHANGED <<globals, blk, c, prev_c, plaintext, zero_iv,
                   padding_size, find_r, find_i, Ds>>
    /\ LET answer == Ask(zero_iv \o r \o c)
           padding == BlockSize - i
           found == [dc EXCEPT ![i + 1] = BitXor[r[i + 1], padding]]
       IN  /\ log' = Logged(zero_iv \o r \o c, answer)
           /\ IF answer.raised # None
              THEN Fails(answer.raised) /\ UNCHANGED <<dc, r, i>>
              ELSE IF answer.value
              THEN /\ dc' = found
                   /\ EnterIndex(found, i - 1)
                   /\ UNCHANGED result
              ELSE IF Overflows(r[i + 1])
              THEN Fails("ValueError: byte must be in range")
                   /\ UNCHANGED <<dc, r, i>>
              ELSE /\ r' = [r EXCEPT ![i + 1] = @ + 1]
                   /\ UNCHANGED <<pc, result, dc, i>>

\* Line 403: plaintext += xor_bytes(dc, prev_c); then the next turn.
AppendBlock ==
    /\ pc = "append"
    /\ UNCHANGED <<globals, zero_iv, padding_size, i, find_r, find_i,
                   result, log>>
    /\ plaintext' = plaintext \o xor_bytes(dc, prev_c)
    /\ Ds' = Append(Ds, dc)
    /\ EnterBlock(blk + 1)

\* Line 405: return unpad(plaintext).decode()
Finish ==
    /\ pc = "return"
    /\ UNCHANGED <<globals, locals, log, Ds>>
    /\ pc' = "done"
    /\ LET unpadded == unpad(plaintext)
       IN  result' = IF unpadded.raised # None THEN Raise(unpadded.raised)
                     ELSE decode(unpadded.value)

-----------------------------------------------------------------------------
(* A second call, for the claims that compare two runs                     *)

\* IVs drawn where the runs are repeated or the inputs malformed.
SomeIVs == {b \in Blocks : b[1] = b[2]}

Outcome ==
    [result |-> result, log |-> log, Ds |-> Ds, plaintext |-> plaintext,
     intercepted_ciphertext |-> intercepted_ciphertext]

\* The call has returned or raised; the caller calls again. The frame's
\* variables keep whatever the first call left in them.
Recall ==
    /\ pc = "done"
    /\ call = 1
    /\ call' = 2
    /\ first' = Outcome
    /\ pc' = "split"
    /\ result' = Return(PyNone)
    /\ log' = <<>>
    /\ Ds' = <<>>
    /\ UNCHANGED <<secret_key, secret_message, oracle, outage, entry, arg, locals>>

\* The same call again.
CallAgain ==
    /\ Recall
    /\ UNCHANGED <<intercepted_ciphertext, placeholder>>

\* The same call with another placeholder IV.
CallWithPlaceholder ==
    /\ Recall
    /\ \E v \in 1 .. MaxFill : placeholder' = Repeat(v, BlockSize)
    /\ UNCHANGED intercepted_ciphertext

\* The same call on the ciphertext with another IV block.
CallWithIV ==
    /\ Recall
    /\ \E v \in 1 .. MaxFill :
          intercepted_ciphertext' =
              xor_bytes(original_iv, Repeat(v, BlockSize))
                  \o SubSeq(intercepted_ciphertext, BlockSize + 1,
                            Len(intercepted_ciphertext))
    /\ UNCHANGED placeholder

Next ==
    \/ Split
    \/ Bootstrap
    \/ FindPrecondition
    \/ FindProbe
    \/ Search
    \/ AppendBlock
    \/ Finish

Spec == Init /\ [][Next]_vars

InitTwo == Intercepted(SomeIVs) /\ oracle = "padding_oracle"

NextTwo ==
    \/ Next
    \/ CallAgain
    \/ CallWithPlaceholder
    \/ CallWithIV

SpecTwo == InitTwo /\ [][NextTwo]_vars

\* The interpreter runs the next statement whenever there is one.
SpecLive == InitTwo /\ [][Next]_vars /\ WF_vars(Next)

-----------------------------------------------------------------------------
(* A second call on the same blocks in another order                       *)

\* The data blocks of a message rotated by k places.
Rotated(cs, k) == [n \in 1 .. Len(cs) |-> cs[((n + k - 1) % Len(cs)) + 1]]

\* The blocks of a message put end to end.
RECURSIVE Joined(_)
Joined(bs) == IF Len(bs) = 0 THEN <<>> ELSE bs[1] \o Joined(Tail(bs))

\* The same call on the same IV and data blocks, the data blocks in another
\* order.
CallReordered ==
    /\ Recall
    /\ Len(original_ciphertext) >= 2
    /\ \E k \in 1 .. (Len(original_ciphertext) - 1) :
          intercepted_ciphertext' =
              original_iv \o Joined(Rotated(original_ciphertext, k))
    /\ UNCHANGED placeholder

NextOrder ==
    \/ Next
    \/ CallReordered

SpecOrder == InitTwo /\ [][NextOrder]_vars

-----------------------------------------------------------------------------
(* Faulty inputs: an oracle that rejects everything, a malformed message   *)

\* The first n bytes of a ciphertext followed by junk.
Cut(full, n) == SubSeq(full \o ZeroBytes(MaxJunk), 1, n)

InitFaulty ==
    /\ outage = 0
    /\ secret_key \in Keys
    /\ secret_message \in Plaintexts
    /\ \E iv \in SomeIVs :
          LET full == encrypt_secret_message(secret_message, secret_key, iv)
          IN  \/ /\ oracle = "always_false"
                 /\ intercepted_ciphertext = full
              \/ /\ oracle = "padding_oracle"
                 /\ \E n \in 0 .. (Len(full) + MaxJunk) :
                        intercepted_ciphertext = Cut(full, n)
    /\ AttackCalled

SpecFaulty == InitFaulty /\ [][Next]_vars

-----------------------------------------------------------------------------
(* An oracle that goes wrong in the middle of a run                        *)

\* IVs drawn where the oracle's fault is drawn too.
FewIVs == {Repeat(v, BlockSize) : v \in Byte}

InitOutage ==
    /\ oracle \in {"unavailable", "turns_false"}
    /\ outage \in 0 .. MaxOutage
    /\ secret_key \in Keys
    /\ secret_message \in Plaintexts
    /\ \E iv \in FewIVs :
          intercepted_ciphertext = encrypt_secret_message(secret_message, secret_key, iv)
    /\ AttackCalled

SpecOutage == InitOutage /\ [][Next]_vars

-----------------------------------------------------------------------------
(* Direct calls of find_padding_size(iv, r, c)                             *)

InitFind ==
    /\ secret_key \in Keys
    /\ oracle \in {"padding_oracle", "always_true"}
    /\ outage = 0
    /\ entry = "find_padding_size"
    /\ zero_iv = ZeroBytes(BlockSize)
    /\ \E t \in Byte : r = [ZeroBytes(BlockSize) EXCEPT ![BlockSize] = t]
    /\ c \in Blocks
    /\ pc = "find_precondition"
    /\ secret_message = <<>> /\ intercepted_ciphertext = <<>>
    /\ call = 1 /\ placeholder = ZeroBytes(BlockSize)
    /\ first = NoFirst /\ arg = NoArg
    /\ blk = 0 /\ prev_c = <<>> /\ plaintext = <<>> /\ dc = <<>>
    /\ padding_size = PyNone /\ i = 0 /\ find_r = <<>> /\ find_i = 0
    /\ NoOutcome

NextFind ==
    \/ FindPrecondition
    \/ FindProbe

SpecFind == InitFind /\ [][NextFind]_vars

-----------------------------------------------------------------------------
(* Direct calls of unpad, and of pad then unpad as in demo_padding         *)

BlockSizes == 1 .. ByteMod

InitPad ==
    /\ \/ entry = "unpad" /\ arg \in [x : BytesUpTo(MaxArg), block_size : {0}]
       \/ entry = "demo_padding"
            /\ arg \in [x : BytesUpTo(MaxArg), block_size : BlockSizes]
    /\ pc = "call"
    /\ secret_key = 0 /\ oracle = "padding_oracle" /\ outage = 0
    /\ secret_message = <<>> /\ intercepted_ciphertext = <<>>
    /\ call = 1 /\ placeholder = ZeroBytes(BlockSize) /\ first = NoFirst
    /\ FreshLocals
    /\ NoOutcome

\* unpad(padded)
CallUnpad ==
    /\ pc = "call" /\ entry = "unpad"
    /\ result' = unpad(arg.x)
    /\ pc' = "done"
    /\ UNCHANGED <<globals, locals, log, Ds>>

\* padded = pad(plaintext, block_size)
DemoPad ==
    /\ pc = "call" /\ entry = "demo_padding"
    /\ result' = pad(arg.x, arg.block_size)
    /\ pc' = IF pad(arg.x, arg.block_size).raised # None THEN "done" ELSE "padded"
    /\ UNCHANGED <<globals, locals, log, Ds>>

\* unpad(padded)
DemoUnpad ==
    /\ pc = "padded"
    /\ result' = unpad(result.value)
    /\ pc' = "done"
    /\ UNCHANGED <<globals, locals, log, Ds>>

NextPad ==
    \/ CallUnpad
    \/ DemoPad
    \/ DemoUnpad

SpecPad == InitPad /\ [][NextPad]_vars

-----------------------------------------------------------------------------
(* Claims                                                                  *)

\* The call under study has ended.
Done == pc = "done"

\* The text of a byte string: what decrypt returns when it returns it.
TextOf(bs) == Return(PyStr(CodePoints(bs).chars))

\* The run is the first call of padding_oracle_attack on the encryption of
\* pad(secret_message) with the true padding oracle of secret_key.
GenuineRun ==
    /\ entry = "padding_oracle_attack"
    /\ call = 1
    /\ oracle = "padding_oracle"
    /\ \E iv \in Blocks :
          intercepted_ciphertext = encrypt_secret_message(secret_message, secret_key, iv)

\* C1: for every key, IV and plaintext, padding_oracle_attack on the CBC
\* encryption of pad(plaintext) with the true oracle returns the plaintext.
C1_ReturnsPlaintext ==
    (Done /\ GenuineRun) =>
        /\ CodePoints(secret_message).ok
        /\ result = TextOf(secret_message)

\* The second call has ended, after a first call on a genuine ciphertext.
SecondDone == Done /\ call = 2 /\ entry = "padding_oracle_attack"

SamePlaceholder == placeholder = ZeroBytes(BlockSize)
SameCiphertext == intercepted_ciphertext = first.intercepted_ciphertext

\* C2: two runs on the same ciphertext with the same oracle and two
\* placeholder IVs recover the same D for every block and return the same.
C2_PlaceholderIndependent ==
    (SecondDone /\ SameCiphertext) =>
        /\ Ds = first.Ds
        /\ result = first.result

\* The n-th block of a byte string.
BlockOf(bs, n) == SubSeq(bs, (n - 1) * BlockSize + 1, n * BlockSize)

\* C3: two runs on ciphertexts that differ only in the IV block make the
\* same oracle queries with the same verdicts and recover the same D for
\* every block; their plaintext blocks after the first are equal and the
\* first ones differ by the XOR of the two IVs.
C3_IvNotUsed ==
    (SecondDone /\ SamePlaceholder /\ ~SameCiphertext) =>
        /\ log = first.log
        /\ Ds = first.Ds
        /\ Len(plaintext) = Len(first.plaintext)
        /\ SubSeq(plaintext, BlockSize + 1, Len(plaintext))
              = SubSeq(first.plaintext, BlockSize + 1, Len(first.plaintext))
        /\ xor_bytes(BlockOf(plaintext, 1), BlockOf(first.plaintext, 1))
              = xor_bytes(BlockOf(intercepted_ciphertext, 1),
                          BlockOf(first.intercepted_ciphertext, 1))

\* C3 witness: a second run on a three-block ciphertext with another IV.
C3_Witness ==
    /\ SecondDone /\ SamePlaceholder /\ ~SameCiphertext
    /\ Len(Ds) = 2
    /\ Len(log) > 2 * BlockSize
    /\ BlockOf(plaintext, 1) # BlockOf(first.plaintext, 1)

\* C9: a second call with the same ciphertext and oracle returns the same
\* as the first and makes the same oracle queries with the same verdicts.
C9_Idempotent ==
    (SecondDone /\ SamePlaceholder /\ SameCiphertext) =>
        /\ result = first.result
        /\ log = first.log
        /\ Ds = first.Ds
        /\ plaintext = first.plaintext

\* C9 witness: a second identical call that returned a text after queries
\* on two blocks.
C9_Witness ==
    /\ SecondDone /\ SamePlaceholder /\ SameCiphertext
    /\ result.raised = None
    /\ Len(Ds) = 2
    /\ Len(log) > 2 * BlockSize

\* C8 as stated: a plaintext whose length is a multiple of the block size is
\* padded with one whole block of BlockSize bytes of value BlockSize, and
\* padding_oracle_attack returns the plaintext with only that block removed.
C8_FullPaddingBlock ==
    (Done /\ GenuineRun /\ Len(secret_message) % BlockSize = 0) =>
        LET padded == pad(secret_message, BlockSize).value
        IN  /\ padded = secret_message \o Repeat(BlockSize, BlockSize)
            /\ plaintext = padded
            /\ result = TextOf(secret_message)

-----------------------------------------------------------------------------
(* Failures. The notebook raises Python's built-in exceptions; the names   *)
(* below are the exceptions the notebook raises for each kind of failure.  *)

\* The bootstrap's r[-1] += 1 running out of byte values.
OracleInconsistency == "ValueError: byte must be in range"

\* The three ways the notebook fails on a ciphertext it cannot split into an
\* IV and whole data blocks.
MalformedCiphertext ==
    {"ValueError: not enough values to unpack",
     "IndexError",
     "ValueError: Data must be padded to block boundary"}

\* find_padding_size's raise on a rejected R || C.
InvalidPrecondition == "ValueError: R || C must have valid padding"

\* unpad's raise.
InvalidFinalPadding == "ValueError: Invalid padding"

AlwaysFalse == entry = "padding_oracle_attack" /\ oracle = "always_false"

\* C4: with an oracle that answers false to everything, the call makes at
\* most ByteMod (256) queries, all of them the bootstrap's on the first data
\* block, is never stuck before it is done, and ends raising the bootstrap's
\* error with nothing returned and no block recovered.
C4_AlwaysFalseFails ==
    AlwaysFalse =>
        /\ Len(log) <= ByteMod
        /\ \A q \in 1 .. Len(log) :
              /\ log[q].site = "bootstrap"
              /\ log[q].blk = 1
              /\ log[q].verdict = "False"
        /\ pc \in {"split", "bootstrap", "done"}
        /\ pc = "bootstrap" => Len(log) = r[BlockSize] /\ r[BlockSize] < ByteMod
        /\ Done =>
              /\ result = Raise(OracleInconsistency)
              /\ Len(log) = ByteMod
              /\ Ds = <<>>
              /\ plaintext = <<>>

\* C4 witness: the call has ended on the error after ByteMod rejected queries.
C4_Witness ==
    /\ AlwaysFalse /\ Done
    /\ Len(log) = ByteMod
    /\ log[ByteMod].verdict = "False"
    /\ result.raised = OracleInconsistency

Malformed(ciphertext) ==
    \/ Len(ciphertext) % BlockSize # 0
    \/ Len(ciphertext) < 2 * BlockSize

C6_UnpadChecks ==
    (entry = "unpad" /\ Done) =>
        LET x == arg.x
            n == Len(x)
        IN  IF n = 0 THEN result.raised = "IndexError"
            ELSE IF x[n] = 0 \/ x[n] > n
            THEN result = RaiseBytes(InvalidFinalPadding)
            ELSE IF \E j \in (n - x[n] + 1) .. n : x[j] # x[n]
            THEN result = RaiseBytes(InvalidFinalPadding)
            ELSE result = Return(SubSeq(x, 1, n - x[n]))

\* C6 witness: unpad returned the first byte of three, the other two being a
\* padding of length two.
C6_Witness ==
    /\ entry = "unpad" /\ Done
    /\ Len(arg.x) = 3
    /\ arg.x[2] = 2 /\ arg.x[3] = 2
    /\ result = Return(<<arg.x[1]>>)

\* pad(x, B) is x followed by n bytes of value n, 1 <= n <= B, its length a
\* multiple of B greater than len(x); unpad of it is x.
PadThenUnpad ==
    /\ result.raised = None
    /\ pc = "padded" =>
          LET n == Len(result.value) - Len(arg.x)
          IN  /\ Len(result.value) % arg.block_size = 0
              /\ Len(result.value) > Len(arg.x)
              /\ n \in 1 .. arg.block_size
              /\ result.value = arg.x \o Repeat(n, n)
    /\ pc = "done" => result.value = arg.x

\* C7 as stated: for every byte string x and every block size B, pad(x, B)
\* is x followed by n bytes of value n, 1 <= n <= B, its length a multiple
\* of B greater than len(x), and unpad(pad(x, B)) returns x.
C7_EveryBlockSize ==
    entry = "demo_padding" => PadThenUnpad

\* C7 amended: the same for every block size below ByteMod (256), the
\* padding length then being a byte value.
C7_BlockSizeInByte ==
    (entry = "demo_padding" /\ arg.block_size < ByteMod) => PadThenUnpad

\* C7 witness: a whole block was padded with a whole block and unpadded back.
C7_Witness ==
    /\ entry = "demo_padding" /\ Done
    /\ arg.block_size = BlockSize
    /\ Len(arg.x) = BlockSize
    /\ result = Return(arg.x)

\* C10: find_padding_size called with R and C whose unmodified candidate the
\* oracle rejects ends raising its precondition error after exactly that one
\* query, no probe having been sent.
C10_RejectedPrecondition ==
    (entry = "find_padding_size" /\ Len(log) >= 1 /\ log[1].verdict = "False") =>
        /\ Done
        /\ result = Raise(InvalidPrecondition)
        /\ Len(log) = 1
        /\ log[1].site = "find_precondition"
        /\ log[1].candidate = zero_iv \o r \o c

\* C10 witness: a direct call ended on the precondition error after one
\* rejected query.
C10_Witness ==
    /\ entry = "find_padding_size" /\ Done
    /\ Len(log) = 1
    /\ log[1].verdict = "False"
    /\ result.raised = InvalidPrecondition

-----------------------------------------------------------------------------
(* Oracle failures and the candidates sent to the oracle                   *)

\* The exception of an oracle call that fails.
OracleUnavailable == "ConnectionError"

\* C11: when an oracle call raises, that query is the last one: the call of
\* padding_oracle_attack ends there raising the oracle's exception, which is
\* logged as neither verdict; every query before the outage got a verdict.
C11_OracleFailurePropagates ==
    oracle = "unavailable" =>
        /\ Len(log) <= outage + 1
        /\ \A q \in 1 .. Len(log) :
              IF q <= outage THEN log[q].verdict \in {"True", "False"}
              ELSE log[q].verdict = OracleUnavailable
        /\ Len(log) = outage + 1 =>
              /\ Done
              /\ result = Raise(OracleUnavailable)
        /\ Done =>
              \/ Len(log) = outage + 1
              \/ result.raised # OracleUnavailable

\* C11 witness: the oracle failed in the per-byte search and the call ended
\* raising its exception.
C11_Witness ==
    /\ oracle = "unavailable" /\ Done
    /\ result = Raise(OracleUnavailable)
    /\ log[Len(log)].site = "search"
    /\ log[Len(log)].verdict = OracleUnavailable

\* A candidate is whole blocks, at least two of them.
WellFormedCandidate(candidate) ==
    /\ Len(candidate) % BlockSize = 0
    /\ Len(candidate) >= 2 * BlockSize
    /\ \A n \in 1 .. Len(blocks(candidate)) : Len(blocks(candidate)[n]) = BlockSize

\* C12 as stated: every candidate passed to the oracle, at the bootstrap, in
\* find_padding_size and in the per-byte search, is a whole number of blocks,
\* at least two, each of exactly BlockSize bytes.
C12_CandidatesWellFormed ==
    entry = "padding_oracle_attack" =>
        \A q \in 1 .. Len(log) : WellFormedCandidate(log[q].candidate)

\* The same for the runs on a well-formed intercepted ciphertext only.
CandidatesOfWellFormedInput ==
    (entry = "padding_oracle_attack" /\ ~Malformed(intercepted_ciphertext)) =>
        \A q \in 1 .. Len(log) : WellFormedCandidate(log[q].candidate)

-----------------------------------------------------------------------------
(* What a run changes                                                      *)

\* C13: in a run of padding_oracle_attack no step changes the intercepted
\* ciphertext or the placeholder IV, zero_iv keeps the value it was given,
\* and c and prev_c are, all through the turn for a block, that block and the
\* block before it of the intercepted ciphertext; only r, dc, plaintext (and
\* find_padding_size's copy of r) change.
C13_InputsUntouched ==
    /\ [](entry = "padding_oracle_attack" =>
            /\ pc # "split" => zero_iv = placeholder
            /\ blk >= 1 =>
                  /\ c = original_ciphertext[blk]
                  /\ prev_c = prev_ciphertext[blk])
    /\ [][/\ intercepted_ciphertext' = intercepted_ciphertext
          /\ placeholder' = placeholder
          /\ pc # "split" => zero_iv' = zero_iv
          /\ blk' = blk => (c' = c /\ prev_c' = prev_c)]_vars

\* C13 witness: the run is over after two blocks, r, dc and plaintext having
\* been written, zero_iv being still the placeholder.
C13_Witness ==
    /\ entry = "padding_oracle_attack" /\ Done
    /\ Len(Ds) = 2
    /\ r # ZeroBytes(BlockSize)
    /\ dc # ZeroBytes(BlockSize)
    /\ Len(plaintext) = 2 * BlockSize
    /\ zero_iv = placeholder

-----------------------------------------------------------------------------
(* find_padding_size                                                       *)

\* A direct call of find_padding_size with the true oracle has returned.
FindReturned ==
    /\ entry = "find_padding_size" /\ oracle = "padding_oracle"
    /\ Done /\ result.raised = None

\* C14 as stated: find_padding_size, the oracle having accepted R || C,
\* returns B - i for the lowest index i whose probe is rejected, a value p
\* with 1 <= p <= B that is the padding length the oracle accepted: the last p
\* bytes of (block decryption of C) XOR R all equal p.
C14_ReturnsPaddingLength ==
    FindReturned =>
        IF result.value.type # "int" THEN FALSE
        ELSE LET p == result.value.int
                 tail == LastN(xor_bytes(BlockDecrypt(secret_key, c), r), p)
             IN  /\ log[1].verdict = "True"
                 /\ \A q \in 2 .. (Len(log) - 1) : log[q].verdict = "True"
                 /\ log[Len(log)].verdict = "False"
                 /\ p = BlockSize - (Len(log) - 2)
                 /\ p \in 1 .. BlockSize
                 /\ \A j \in 1 .. p : tail[j] = p


\* Every index 0 .. B-1 was probed and the oracle rejected no probe.
NoProbeRejected ==
    /\ entry = "find_padding_size" /\ Done
    /\ Len(log) = BlockSize + 1
    /\ \A q \in 1 .. Len(log) : log[q].verdict = "True"

\* C15 as stated: find_padding_size, having probed every index with no probe
\* rejected, reports the padding length B.
C15_NoRejectionMeansFullBlock ==
    NoProbeRejected => result = Return(PyInt(BlockSize))

\* With padding_oracle itself some probe is always rejected.
SomeProbeRejected ==
    oracle = "padding_oracle" => ~NoProbeRejected


\* C16: find_padding_size leaves the caller's r as it was: no step of a
\* direct call changes r, whether the call goes on, returns a length, returns
\* None or raises; the flips are in its own copy, which differs from r in the
\* bytes probed and in nothing else.
C16_CallerRUnchanged ==
    /\ [][entry = "find_padding_size" => r' = r]_vars
    /\ []((entry = "find_padding_size" /\ find_r # <<>>) =>
            \A j \in 1 .. BlockSize :
                r[j] = IF j <= Len(log) - 1 THEN BitXor[find_r[j], 1]
                       ELSE find_r[j])

\* C16 witness: a direct call returned a length after two probes, its copy
\* of r flipped in two bytes and the caller's r still the block it passed.
C16_Witness ==
    /\ FindReturned
    /\ result.value = PyInt(BlockSize - 1)
    /\ find_r # r
    /\ r[1] = 0 /\ r[2] = 0


\* C17 as stated: the attack block sent in the probe for index i is the
\* original R with one bit of byte i flipped and no other byte changed.
C17_ProbesAreLocal ==
    entry = "find_padding_size" =>
        \A q \in 2 .. Len(log) :
            log[q].candidate = FlipBit(r, q - 2) \o c

-----------------------------------------------------------------------------
(* The per-byte search                                                     *)

\* The candidate of the search at index i with value v in r[i].
SearchCandidate(v) == zero_iv \o [r EXCEPT ![i + 1] = v] \o c

\* C18: with an oracle that rejects every value of r[i] in the search at
\* some index i, the search asks about the values 0, 1, ... in turn, never
\* more than ByteMod (256) of them, and after the last one is rejected the
\* call ends raising the error of the increment, dc and r left as they were.
C18_SearchExhausted ==
    /\ [](pc = "search" =>
            /\ r[i + 1] \in Byte
            /\ Len(log) >= r[i + 1]
            /\ \A v \in 0 .. (r[i + 1] - 1) :
                  log[Len(log) - r[i + 1] + v + 1] =
                      [site |-> "search", blk |-> blk,
                       candidate |-> SearchCandidate(v), verdict |-> "False"])
    /\ [][(oracle = "turns_false" /\ pc = "search" /\ pc' = "done") =>
            /\ r[i + 1] = ByteMod - 1
            /\ Len(log') = Len(log) + 1
            /\ log'[Len(log')].candidate = SearchCandidate(ByteMod - 1)
            /\ log'[Len(log')].verdict = "False"
            /\ result' = Raise(OracleInconsistency)
            /\ dc' = dc /\ r' = r /\ plaintext' = plaintext /\ Ds' = Ds]_vars

\* C18 witness: the oracle accepted at the bootstrap, then rejected ByteMod
\* values in a search, and the call ended on the error.
C18_Witness ==
    /\ oracle = "turns_false" /\ Done
    /\ result = Raise(OracleInconsistency)
    /\ Len(log) > ByteMod
    /\ log[Len(log)].site = "search"
    /\ \A v \in 0 .. (ByteMod - 1) :
          /\ log[Len(log) - ByteMod + v + 1].site = "search"
          /\ log[Len(log) - ByteMod + v + 1].verdict = "False"
    /\ \E q \in 1 .. Len(log) : log[q].site = "bootstrap" /\ log[q].verdict = "True"


\* The values of r[i] the oracle accepts in the search at index i.
Accepted == {v \in Byte : Ask(SearchCandidate(v)).value}

\* C19: with padding_oracle, in the search at every index i exactly one value
\* of r[i] is accepted; the search started at 0 and has asked about every
\* value below the present one, so the accepted one is still ahead; and the
\* step that ends the search at i is the query of the accepted value.
C19_OneValueAccepted ==
    /\ []((oracle = "padding_oracle" /\ pc = "search") =>
            /\ LET accepted == Accepted
               IN  /\ Cardinality(accepted) = 1
                   /\ \A v \in accepted : r[i + 1] <= v
            /\ Len(log) >= r[i + 1]
            /\ \A v \in 0 .. (r[i + 1] - 1) :
                  /\ log[Len(log) - r[i + 1] + v + 1].site = "search"
                  /\ log[Len(log) - r[i + 1] + v + 1].candidate = SearchCandidate(v))
    /\ [][(oracle = "padding_oracle" /\ pc = "search" /\ (pc' # "search" \/ i' # i)) =>
            /\ Accepted = {r[i + 1]}
            /\ log'[Len(log')].candidate = SearchCandidate(r[i + 1])
            /\ log'[Len(log')].verdict = "True"]_vars

\* C19 witness: the search at index 0 of the second block is past value 0.
C19_Witness ==
    /\ oracle = "padding_oracle" /\ pc = "search"
    /\ blk = 2 /\ i = 0
    /\ r[1] > 0
    /\ Cardinality(Accepted) = 1


\* C20 as stated: with padding_oracle, every byte of dc that has been written
\* (the tail from find_padding_size's length, then one byte for each index
\* searched) is that byte of the block cipher's raw decryption of c, and dc
\* of a completed block is the raw decryption in all its bytes.
C20_DIsRawDecryption ==
    (entry = "padding_oracle_attack" /\ oracle = "padding_oracle") =>
        /\ pc = "search" =>
              \A j \in (i + 2) .. BlockSize : dc[j] = BlockDecrypt(secret_key, c)[j]
        /\ pc = "append" => dc = BlockDecrypt(secret_key, c)
        /\ \A n \in 1 .. Len(Ds) :
              Ds[n] = BlockDecrypt(secret_key, original_ciphertext[n])


\* C21: within a block the indices are searched one at a time from
\* B - p - 1 down to 0. In the search at index i every byte of dc above i is
\* written and stays as it is, r above i is dc XOR (B - i) there, in every
\* query of that search; a step writes at most dc[i], and only when it leaves
\* index i for index i - 1 or, from index 0, for the end of the block, where
\* dc is taken as it stands.
C21_DescendingIndices ==
    /\ [](pc = "search" =>
            /\ i \in 0 .. (BlockSize - padding_size.int - 1)
            /\ \A j \in (i + 2) .. BlockSize :
                  r[j] = BitXor[dc[j], BlockSize - i]
            /\ \A v \in 0 .. (r[i + 1] - 1) :
                  log[Len(log) - r[i + 1] + v + 1].candidate = SearchCandidate(v))
    /\ [][/\ (pc = "find_probe" /\ pc' = "search") =>
                i' = BlockSize - padding_size'.int - 1
          /\ (pc = "search" /\ pc' = "search") =>
                /\ \A j \in (i + 2) .. BlockSize : dc'[j] = dc[j]
                /\ \/ i' = i /\ dc' = dc
                   \/ /\ i' = i - 1
                      /\ dc'[i + 1] = BitXor[r[i + 1], BlockSize - i]
                      /\ log'[Len(log')].verdict = "True"
          /\ (pc = "search" /\ pc' = "append") =>
                /\ i = 0
                /\ \A j \in 2 .. BlockSize : dc'[j] = dc[j]
                /\ dc'[1] = BitXor[r[1], BlockSize]
          /\ pc = "append" => Ds' = Append(Ds, dc)]_vars

\* C21 witness: index 0 of a block is being searched after index 1 was, with
\* a padding of length 1.
C21_Witness ==
    /\ entry = "padding_oracle_attack" /\ oracle = "padding_oracle"
    /\ pc = "search" /\ i = 0
    /\ padding_size = PyInt(1)
    /\ r[1] > 0
    /\ r[2] = BitXor[dc[2], BlockSize] /\ r[3] = BitXor[dc[3], BlockSize]


\* C22: when find_padding_size returns the block size for a block, no index
\* is searched: the probe that returned it is the last query for the block,
\* and dc is r XOR BlockSize in every byte when the block is appended.
C22_FullBlockSkipsSearch ==
    entry = "padding_oracle_attack" =>
        /\ pc = "search" => padding_size # PyInt(BlockSize)
        /\ (pc = "append" /\ padding_size = PyInt(BlockSize)) =>
              /\ dc = xor_bytes(r, Repeat(BlockSize, BlockSize))
              /\ log[Len(log)].site = "find_probe"
              /\ log[Len(log)].blk = blk
              /\ \A q \in 1 .. Len(log) :
                    log[q].blk = blk => log[q].site # "search"
        /\ \A n \in 1 .. Len(Ds) :
              (\A q \in 1 .. Len(log) : log[q].blk = n => log[q].site # "search")
                  => \E t \in Byte :
                        Ds[n] = xor_bytes([ZeroBytes(BlockSize) EXCEPT ![BlockSize] = t],
                                          Repeat(BlockSize, BlockSize))

\* C22 witness: the second block of a message, a whole block of padding, is
\* about to be appended with no index searched.
C22_Witness ==
    /\ entry = "padding_oracle_attack" /\ oracle = "padding_oracle"
    /\ pc = "append" /\ blk = 2
    /\ padding_size = PyInt(BlockSize)
    /\ dc = xor_bytes(r, Repeat(BlockSize, BlockSize))
    /\ log[Len(log)].site = "find_probe"

-----------------------------------------------------------------------------
(* The bootstrap                                                           *)

\* The bootstrap query of this step got a verdict.
BootstrapAnswered(verdict) ==
    /\ pc = "bootstrap"
    /\ Len(log') = Len(log) + 1
    /\ log'[Len(log')].verdict = verdict

\* r is all zero but for its last byte, whose value is the number of
\* bootstrap queries rejected so far for the block: the bootstrap started at
\* zero and every value below the present one was rejected.
BootstrapCounts ==
    pc = "bootstrap" =>
        /\ Len(r) = BlockSize
        /\ \A j \in 1 .. (BlockSize - 1) : r[j] = 0
        /\ Len(log) >= r[BlockSize]
        /\ \A v \in 0 .. (r[BlockSize] - 1) :
              log[Len(log) - r[BlockSize] + v + 1] =
                  [site |-> "bootstrap", blk |-> blk,
                   candidate |-> zero_iv \o [r EXCEPT ![BlockSize] = v] \o c,
                   verdict |-> "False"]
        /\ r[BlockSize] < Len(log) =>
              log[Len(log) - r[BlockSize]].site # "bootstrap"

\* C23 as stated: r starts all zero, only its last byte changes, every
\* rejected query increments it by 1 modulo ByteMod (256), 255 + 1 giving 0,
\* and the bootstrap ends at the first value the oracle accepts.
C23_IncrementWraps ==
    /\ [](entry = "padding_oracle_attack" => BootstrapCounts)
    /\ [][/\ BootstrapAnswered("True") => (pc' = "find_precondition" /\ r' = r)
          /\ BootstrapAnswered("False") =>
                /\ pc' = "bootstrap"
                /\ r' = [r EXCEPT ![BlockSize] = (@ + 1) % ByteMod]]_vars

\* C23 amended: the same, but the increment does not wrap: when the value
\* ByteMod - 1 (255) is rejected the increment raises and the call ends, r
\* left as it was.
C23_IncrementRaises ==
    /\ [](entry = "padding_oracle_attack" => BootstrapCounts)
    /\ [][/\ BootstrapAnswered("True") => (pc' = "find_precondition" /\ r' = r)
          /\ BootstrapAnswered("False") =>
                IF r[BlockSize] = ByteMod - 1
                THEN /\ pc' = "done"
                     /\ result' = Raise(OracleInconsistency)
                     /\ r' = r
                ELSE /\ pc' = "bootstrap"
                     /\ r' = [r EXCEPT ![BlockSize] = @ + 1]]_vars

\* C23 witness: the bootstrap of a second block ended at a value above 0
\* that the oracle accepted, every value below it rejected.
C23_Witness ==
    /\ entry = "padding_oracle_attack" /\ oracle = "padding_oracle"
    /\ pc = "find_precondition" /\ blk = 2
    /\ r[BlockSize] > 1
    /\ r[1] = 0 /\ r[2] = 0
    /\ log[Len(log)].verdict = "True"
    /\ log[Len(log) - 1].verdict = "False"

-----------------------------------------------------------------------------
(* Blocks one by one                                                       *)

\* The queries made for the n-th data block in a log, without its position.
QueriesOf(lg, n) ==
    LET own == SelectSeq(lg, LAMBDA e : e.blk = n)
    IN  [q \in 1 .. Len(own) |->
            <<own[q].site, own[q].candidate, own[q].verdict>>]

\* The data blocks of a ciphertext.
DataBlocks(ciphertext) == Tail(blocks(ciphertext))

PlaintextIsAssembled ==
    /\ Len(plaintext) = Len(Ds) * BlockSize
    /\ \A j \in 1 .. Len(Ds) :
          BlockOf(plaintext, j) = xor_bytes(Ds[j], blocks(intercepted_ciphertext)[j])

\* Each step leaves the accumulated plaintext as it is or appends one block.
PlaintextIsAppended ==
    [][pc # "split" =>
          \/ plaintext' = plaintext
          \/ /\ pc = "append"
             /\ Len(plaintext') = Len(plaintext) + BlockSize
             /\ SubSeq(plaintext', 1, Len(plaintext)) = plaintext]_vars

\* The accumulated plaintext is the padded message as far as it goes.
PlaintextIsCorrect ==
    plaintext = SubSeq(pad(secret_message, BlockSize).value, 1, Len(plaintext))

\* C25 as stated: after k data blocks the accumulated plaintext has k blocks,
\* the j-th being dc of block j XOR the block before it (the IV for the
\* first); blocks appended never change; so at every block boundary it is
\* the correct plaintext of the blocks done.
C25_PlaintextAppendOnly ==
    /\ [](entry = "padding_oracle_attack" =>
            (PlaintextIsAssembled /\ PlaintextIsCorrect))
    /\ PlaintextIsAppended

\* C25 without its last part: assembled in order and append-only.
PlaintextAssembledInOrder ==
    /\ [](entry = "padding_oracle_attack" => PlaintextIsAssembled)
    /\ PlaintextIsAppended

-----------------------------------------------------------------------------
(* Termination                                                             *)

\* The number of queries in the log for block n at one of some sites.
QueryCount(n, sites) ==
    Len(SelectSeq(log, LAMBDA e : e.blk = n /\ e.site \in sites))

\* ByteMod queries of one search were rejected and the search went on.
SearchOverran ==
    \E q \in 1 .. (Len(log) - ByteMod) :
        /\ \A k \in 0 .. ByteMod :
              log[q + k].site = "search" /\ log[q + k].blk = log[q].blk
        /\ \A k \in 0 .. (ByteMod - 1) : log[q + k].verdict = "False"

\* For every block at most ByteMod (256) bootstrap queries, at most
\* BlockSize + 1 queries of find_padding_size, at most ByteMod for an index.
QueriesBounded ==
    /\ \A n \in 1 .. blk :
          /\ QueryCount(n, {"bootstrap"}) <= ByteMod
          /\ QueryCount(n, {"find_precondition"}) <= 1
          /\ QueryCount(n, {"find_precondition", "find_probe"}) <= BlockSize + 1
          /\ QueryCount(n, {"search"}) <= ByteMod * (BlockSize - 1)
    /\ ~SearchOverran

\* C26: with padding_oracle every call of padding_oracle_attack comes to its
\* end, returning or raising, and the queries stay within the bounds.
C26_TerminatesWithinBounds ==
    /\ <>Done
    /\ [](oracle = "padding_oracle" => QueriesBounded)

\* C26 witness: a run on two data blocks is over, one of its searches
\* having been accepted at its last value, after ByteMod queries.
C26_Witness ==
    /\ Done /\ oracle = "padding_oracle"
    /\ Len(Ds) = 2
    /\ \E q \in 1 .. (Len(log) - ByteMod + 1) :
          /\ \A k \in 0 .. (ByteMod - 1) : log[q + k].site = "search"
          /\ \A k \in 0 .. (ByteMod - 2) : log[q + k].verdict = "False"
          /\ log[q + ByteMod - 1].verdict = "True"

=============================================================================
